---- MODULE Spec2Model ----
(***************************************************************************)
(* Model of google-connector/main.py: the credential lifecycle             *)
(* (get_credentials), the facade endpoints and the calendar merge.         *)
(*                                                                         *)
(* Every endpoint is an `async def` coroutine that contains no `await`:    *)
(* once the event loop has started a handler, the handler keeps the loop   *)
(* through each of its blocking calls (refresh exchange, interactive       *)
(* flow, provider calls) until it has produced its response.  An action    *)
(* of the model is the code a handler runs between two blocking calls.     *)
(***************************************************************************)
EXTENDS Integers, Sequences, FiniteSets, TLC

\* ------------------------------------------------------------- bounds
MaxTime == 3        \* the clock runs 0..MaxTime
MaxLifetime == 2    \* expires_in of a token the authorization server issues: 1..MaxLifetime
MaxIssued == 3      \* access tokens the authorization server issues in one run
MaxItems == 2       \* items one calendar returns (merge specification)
MaxMsgs == 2        \* message ids one unread listing returns

Requests == {"r1", "r2"}
NoOne == "none"

\* ------------------------------------------------------------- values
\* main.py:35-39
SCOPES == {"calendar", "gmail.modify", "drive.file"}

\* a capability set an earlier version of the service was granted
NarrowScopes == {"calendar"}

\* Optional[str]: None is <<>>, the string s is <<s>>; a string is a sequence
\* of code points, so the empty string is << <<>> >>.
None == <<>>
Some(s) == <<s>>
Truthy(o) == o # None /\ o # Some(<<>>)

\* Python's `a or b`
PyOr(a, b) == IF Truthy(a) THEN a ELSE b

\* Python's str < str: lexicographic on code points, a proper prefix first
RECURSIVE StrLess(_, _)
StrLess(a, b) ==
    IF b = <<>> THEN FALSE
    ELSE IF a = <<>> THEN TRUE
    ELSE IF Head(a) # Head(b) THEN Head(a) < Head(b)
    ELSE StrLess(Tail(a), Tail(b))

\* ------------------------------------------------------------- credentials
NoExpiry == 0 - 1
NoToken == 0

\* google.oauth2.credentials.Credentials as main.py reads it: token,
\* refresh_token (truthy or not), expiry, the scopes attribute; `granted` is
\* the capability set the authorization server attached to the access token.
NullCred ==
    [token |-> NoToken, refresh_token |-> FALSE, expiry |-> NoExpiry,
     scopes |-> {}, granted |-> {}]

\* creds.expired
Expired(c, t) == c.expiry # NoExpiry /\ t >= c.expiry

\* creds.valid
Valid(c, t) == c.token # NoToken /\ ~Expired(c, t)

\* TOKEN_FILE: absent, unreadable, or a stored credential
AbsentFile == [state |-> "absent", cred |-> NullCred]
MalformedFile == [state |-> "malformed", cred |-> NullCred]

\* creds.to_json() written by TOKEN_FILE.write_text
to_json(c) == [state |-> "ok", cred |-> c]

\* Credentials.from_authorized_user_file(TOKEN_FILE, SCOPES): the stored
\* fields, with the scopes attribute set to the scopes asked for
from_authorized_user_file(f, scopes) == [f.cred EXCEPT !.scopes = scopes]

\* a refresh attempted whenever a refresh token is at hand
DecideEagerRefresh(hasCreds, c, t) ==
    IF hasCreds /\ c.refresh_token THEN "refresh"
    ELSE IF hasCreds /\ Valid(c, t) THEN "return"
    ELSE "flow"

\* the refresh branch taken without looking for a refresh token
DecideNoTokenCheck(hasCreds, c, t) ==
    IF hasCreds /\ Valid(c, t) THEN "return"
    ELSE IF hasCreds /\ Expired(c, t) THEN "refresh"
    ELSE "flow"

\* get_credentials, lines 95-98: return the loaded credential, refresh it,
\* or run the interactive flow
Decide(hasCreds, c, t) ==
    IF hasCreds /\ Valid(c, t) THEN "return"
    ELSE IF hasCreds /\ Expired(c, t) /\ c.refresh_token THEN "refresh"
    ELSE "flow"

\* a refresh that leaves the expiry as it was
RefreshedKeepsExpiry(c, tok, exp) == [c EXCEPT !.token = tok]

\* creds.refresh(Request()) accepted by the authorization server: a new
\* access token and expiry; the grant of the refresh token is what it was
Refreshed(c, tok, exp) == [c EXCEPT !.token = tok, !.expiry = exp]

\* flow.run_local_server(port=0) completed: a fresh credential for SCOPES
Acquired(tok, rt, exp) ==
    [token |-> tok, refresh_token |-> rt, expiry |-> exp,
     scopes |-> SCOPES, granted |-> SCOPES]

\* the write placed in the flow branch alone
PersistAfterFlowOnly(path, file, c) == IF path = "flow" THEN to_json(c) ELSE file

\* line 105, reached after the refresh and after the flow alike
Persist(path, file, c) == to_json(c)

\* a handler that awaits the refresh exchange
AwaitsRefresh(p) == p = "refresh"

\* An `async def` handler gives the event loop back only at an `await`;
\* the handlers have none, whatever blocking call they are in.
AwaitsAt(p) == FALSE

\* ------------------------------------------------------------- calendar merge
\* a raw provider event: item["start"]["dateTime"], item["start"]["date"],
\* and summary standing for the fields copied through
RawItem(dt, d, tag) == [dateTime |-> dt, date |-> d, summary |-> tag]

\* lines 141-151: one CalendarEvent per raw item
NormalizeEvent(item) ==
    [start |-> PyOr(item.dateTime, item.date), summary |-> item.summary]

NormalizeEvents(items) == [i \in 1..Len(items) |-> NormalizeEvent(items[i])]

\* lines 154-157
parse_dt(s) == IF ~Truthy(s) THEN <<>> ELSE s[1]

\* an unstable sort: an element goes before the elements with its key
RECURSIVE InsertBeforeEqual(_, _)
InsertBeforeEqual(s, e) ==
    IF s = <<>> THEN <<e>>
    ELSE IF ~StrLess(parse_dt(Head(s).start), parse_dt(e.start))
         THEN <<e>> \o s
         ELSE <<Head(s)>> \o InsertBeforeEqual(Tail(s), e)

\* list.sort(key=...) is stable: an element goes after every element whose
\* key is not greater than its own
RECURSIVE InsertSorted(_, _)
InsertSorted(s, e) ==
    IF s = <<>> THEN <<e>>
    ELSE IF StrLess(parse_dt(e.start), parse_dt(Head(s).start))
         THEN <<e>> \o s
         ELSE <<Head(s)>> \o InsertSorted(Tail(s), e)

\* line 159: events.sort(key=lambda e: parse_dt(e.start))
RECURSIVE SortEvents(_)
SortEvents(s) ==
    IF s = <<>> THEN <<>>
    ELSE InsertSorted(SortEvents(SubSeq(s, 1, Len(s) - 1)), s[Len(s)])

\* ------------------------------------------------------------- facade
Endpoints ==
    {"health", "calendar_next", "gmail_unread", "drive_recent",
     "drive_search", "drive_file"}

DocMime == "application/vnd.google-apps.document"

\* meta.get("mimeType") of a Drive resource; "None" is a resource without one
MimeKinds == {DocMime, "application/pdf", "None"}

\* what one raised exception carries to the handler's except clauses
Exc(kind, status, message) == [kind |-> kind, status |-> status, message |-> message]

\* one except clause for every exception
MapEveryExceptionTo500(ep, exc) == [status |-> 500, detail |-> exc.message]

\* the except clauses: drive_file_content re-raises an HTTPException
\* (lines 318-319); everything else becomes a 500 with detail str(e)
\* (lines 161-162, 203-204, 238-239, 276-277, 320-321)
MapException(ep, exc) ==
    IF ep = "drive_file" /\ exc.kind = "HTTPException"
    THEN [status |-> exc.status, detail |-> exc.message]
    ELSE [status |-> 500, detail |-> exc.message]

\* a failure caught per calendar: what was collected is still returned
CalendarFailurePartial(collected, exc) ==
    [status |-> 200, detail |-> <<>>, body |-> SortEvents(collected)]

\* calendar_next when events().list(...).execute() raises for one calendar:
\* the exception leaves the loop and the events collected so far are dropped
CalendarFailure(collected, exc) ==
    [status |-> MapException("calendar_next", exc).status,
     detail |-> MapException("calendar_next", exc).detail,
     body |-> <<>>]

\* lines 294-310: only an editable document is exported
ExportAllowed(mime) == mime = DocMime

VARIABLES
    now,           \* the clock
    clientConfig,  \* CREDENTIALS_FILE.exists()
    tokenFile,     \* TOKEN_FILE
    issued,        \* access tokens the authorization server has issued
    loop,          \* the request whose handler holds the event loop
    req,           \* per request: where its handler is, and its locals
    gc,            \* what get_credentials did for the handler now running
    last,          \* the response the last handler produced
    produced       \* what the most recent successful refresh or flow yielded

vars == <<now, clientConfig, tokenFile, issued, loop, req, gc, last, produced>>

IdleReq ==
    [pc |-> "idle", endpoint |-> "health", t0 |-> 0, hadCred |-> FALSE,
     loaded |-> NullCred, seen |-> AbsentFile, step |-> 0, acc |-> <<>>,
     pending |-> 0, mime |-> "None", hasId |-> FALSE, exportCalls |-> 0]

NoCall ==
    [caller |-> NoOne, outcome |-> "none", hadCred |-> FALSE,
     loaded |-> NullCred, t0 |-> 0, refreshCalls |-> 0, flowCalls |-> 0,
     writes |-> 0, rejected |-> FALSE, returned |-> NullCred,
     clobbered |-> FALSE]

NoResponse ==
    [caller |-> NoOne, endpoint |-> "health", status |-> 0, detail |-> <<>>,
     body |-> <<>>, failure |-> "none", collected |-> <<>>,
     exportCalls |-> 0, mime |-> "None"]

\* the credential files the service can find at start
InitialCreds ==
    {[token |-> tk, refresh_token |-> rt, expiry |-> ex, scopes |-> g, granted |-> g] :
        tk \in {NoToken, 1}, rt \in BOOLEAN, ex \in {NoExpiry, 1, 2},
        g \in {SCOPES, NarrowScopes}}

InitialFiles == {AbsentFile, MalformedFile} \cup {to_json(c) : c \in InitialCreds}

Init ==
    /\ now = 0
    /\ clientConfig \in BOOLEAN
    /\ tokenFile \in InitialFiles
    /\ issued = 1
    /\ loop = NoOne
    /\ req = [r \in Requests |-> IdleReq]
    /\ gc = NoCall
    /\ last = NoResponse
    /\ produced = tokenFile

\* ------------------------------------------------------------- steps
\* the handler of r (endpoint ep) has produced its response and is gone
\* from the loop
Finish(r, ep, mime, resp, failure, collected) ==
    /\ last' = [caller |-> r, endpoint |-> ep,
                status |-> resp.status, detail |-> resp.detail,
                body |-> resp.body, failure |-> failure, collected |-> collected,
                exportCalls |-> req[r].exportCalls, mime |-> mime]
    /\ req' = [req EXCEPT ![r] = IdleReq]
    /\ loop' = NoOne

\* an exception reached the handler's except clauses
Raise(r, ep, mime, exc, failure, collected) ==
    Finish(r, ep, mime,
           [status |-> MapException(ep, exc).status,
            detail |-> MapException(ep, exc).detail, body |-> <<>>],
           failure, collected)

\* get_credentials has returned: build(...) and the first provider call
CallProvider(r, ep) ==
    /\ req' = [req EXCEPT ![r] = [IdleReq EXCEPT !.pc = "provider",
                                     !.endpoint = ep, !.step = 1]]
    /\ loop' = r
    /\ last' = NoResponse

\* a client sends a request; it waits for the event loop
Arrive(r) ==
    /\ req[r].pc = "idle"
    /\ req' = [req EXCEPT ![r].pc = "queued"]
    /\ UNCHANGED <<now, clientConfig, tokenFile, issued, loop, gc, last, produced>>

\* the event loop starts the handler of the endpoint the request names:
\* /health answers at once (lines 110-112); the others run get_credentials
\* up to its return, its raise or its first blocking exchange (lines 84-103)
Begin(r) ==
    /\ req[r].pc = "queued"
    /\ loop = NoOne
    /\ UNCHANGED <<now, clientConfig, tokenFile, issued, produced>>
    /\ \E ep \in Endpoints :
       LET had == tokenFile.state = "ok"
           c == IF had THEN from_authorized_user_file(tokenFile, SCOPES) ELSE NullCred
           call == [NoCall EXCEPT !.caller = r, !.hadCred = had, !.loaded = c, !.t0 = now]
       IN  IF ep = "health"
           THEN /\ Finish(r, ep, "None", [status |-> 200, detail |-> <<>>, body |-> <<"ok">>],
                          "none", <<>>)
                /\ gc' = NoCall
           ELSE IF ~clientConfig
           THEN /\ gc' = [NoCall EXCEPT !.caller = r, !.outcome = "raised", !.t0 = now]
                /\ Raise(r, ep, "None", Exc("RuntimeError", 0, <<"Missing credentials.json">>),
                         "credentials", <<>>)
           ELSE IF tokenFile.state = "malformed"
           THEN /\ gc' = [NoCall EXCEPT !.caller = r, !.outcome = "raised", !.t0 = now]
                /\ Raise(r, ep, "None",
                         Exc("ValueError", 0, <<"token.json not in the expected format">>),
                         "credentials", <<>>)
           ELSE IF Decide(had, c, now) = "return"
           THEN /\ gc' = [call EXCEPT !.outcome = "returned", !.returned = c]
                /\ CallProvider(r, ep)
           ELSE /\ req' = [req EXCEPT ![r] =
                            [IdleReq EXCEPT !.pc = Decide(had, c, now),
                                            !.endpoint = ep,
                                            !.t0 = now, !.hadCred = had,
                                            !.loaded = c, !.seen = tokenFile]]
                /\ loop' = IF AwaitsAt(Decide(had, c, now)) THEN NoOne ELSE r
                /\ gc' = NoCall
                /\ last' = NoResponse

\* what get_credentials did, once the exchange it was blocked in has ended
Call(r) ==
    [NoCall EXCEPT !.caller = r, !.hadCred = req[r].hadCred,
                   !.loaded = req[r].loaded, !.t0 = req[r].t0,
                   !.refreshCalls = IF req[r].pc = "refresh" THEN 1 ELSE 0,
                   !.flowCalls = IF req[r].pc = "flow" THEN 1 ELSE 0]

\* lines 105-107 after a successful exchange yielded c
PersistAndReturn(r, c) ==
    /\ tokenFile' = Persist(req[r].pc, tokenFile, c)
    /\ produced' = to_json(c)
    /\ issued' = c.token
    /\ gc' = [Call(r) EXCEPT !.outcome = "returned", !.returned = c,
                             !.writes = IF tokenFile' # tokenFile THEN 1 ELSE 0,
                             !.clobbered = tokenFile # req[r].seen]
    /\ CallProvider(r, req[r].endpoint)
    /\ UNCHANGED <<now, clientConfig>>

\* line 97: creds.refresh(Request()) returns or raises RefreshError
RefreshReturns(r) ==
    /\ req[r].pc = "refresh"
    /\ loop \in {r, NoOne}
    /\ \/ /\ issued < MaxIssued
          /\ \E life \in 1..MaxLifetime :
                PersistAndReturn(r, Refreshed(req[r].loaded, issued + 1, now + life))
       \/ /\ gc' = [Call(r) EXCEPT !.outcome = "raised", !.rejected = TRUE]
          /\ Raise(r, req[r].endpoint, "None", Exc("RefreshError", 0, <<"invalid_grant">>),
                   "credentials", <<>>)
          /\ UNCHANGED <<now, clientConfig, tokenFile, issued, produced>>

\* lines 99-103: the interactive flow yields a credential or raises
FlowReturns(r) ==
    /\ req[r].pc = "flow"
    /\ loop \in {r, NoOne}
    /\ \/ /\ issued < MaxIssued
          /\ \E life \in 1..MaxLifetime, rt \in BOOLEAN :
                PersistAndReturn(r, Acquired(issued + 1, rt, now + life))
       \/ /\ gc' = [Call(r) EXCEPT !.outcome = "raised"]
          /\ Raise(r, req[r].endpoint, "None", Exc("Exception", 0, <<"access_denied">>),
                   "credentials", <<>>)
          /\ UNCHANGED <<now, clientConfig, tokenFile, issued, produced>>

\* ------------------------------------------------------------- provider calls
\* the (dateTime, date) pairs a raw event's start is drawn from
RawStarts ==
    {<<None, None>>, <<None, Some(<<>>)>>, <<Some(<<1>>), None>>,
     <<None, Some(<<1>>)>>, <<Some(<<1, 2>>), Some(<<2>>)>>, <<Some(<<2>>), None>>}

\* the item lists of at most n events calendar number cal can return; the
\* summary of an event names its calendar and its place in the list
ItemLists(cal, starts, n) ==
    UNION {{[i \in 1..k |-> RawItem(f[i][1], f[i][2], <<cal, i>>)] :
                f \in [1..k -> starts]} : k \in 0..n}

ProviderError == Exc("HttpError", 0, <<"upstream unavailable">>)
ValidationError == Exc("ValidationError", 0, <<"id: none is not an allowed value">>)

Ok(body) == [status |-> 200, detail |-> <<>>, body |-> body]

\* the handler goes on to its next blocking call
Continue(r, rq) ==
    /\ req' = [req EXCEPT ![r] = rq]
    /\ loop' = r
    /\ UNCHANGED <<last, gc>>

\* the handler ends in the provider phase
End(r, resp, failure, collected) ==
    /\ Finish(r, req[r].endpoint, req[r].mime, resp, failure, collected)
    /\ gc' = NoCall

Fail(r, exc, failure, collected) ==
    /\ Raise(r, req[r].endpoint, req[r].mime, exc, failure, collected)
    /\ gc' = NoCall

\* lines 126-160 for the calendar the handler is waiting for: its events
\* are appended; after the second calendar the list is sorted and returned
CalendarOk(r, items) ==
    LET events == req[r].acc \o NormalizeEvents(items)
    IN  IF req[r].step = 1
        THEN Continue(r, [req[r] EXCEPT !.acc = events, !.step = 2])
        ELSE End(r, Ok(SortEvents(events)), "none", events)

\* events().list(...).execute() returns, or raises, for PRIMARY_CAL_ID
\* (step 1) and then for FAMILY_CAL_ID (step 2)
CalendarReturns(r) ==
    /\ req[r].pc = "provider"
    /\ req[r].endpoint = "calendar_next"
    /\ loop \in {r, NoOne}
    /\ UNCHANGED <<now, clientConfig, tokenFile, issued, produced>>
    /\ \/ \E items \in ItemLists(req[r].step, {<<None, None>>, <<Some(<<2>>), None>>}, 1) :
             CalendarOk(r, items)
       \/ /\ Finish(r, "calendar_next", "None",
                    CalendarFailure(req[r].acc, ProviderError), "provider", req[r].acc)
          /\ gc' = NoCall

\* lines 173-204: list the unread ids, then get and normalize each message;
\* GmailMessage needs an id
GmailReturns(r) ==
    /\ req[r].pc = "provider"
    /\ req[r].endpoint = "gmail_unread"
    /\ loop \in {r, NoOne}
    /\ UNCHANGED <<now, clientConfig, tokenFile, issued, produced>>
    /\ \/ /\ req[r].step = 1
          /\ \E k \in 0..MaxMsgs :
                IF k = 0
                THEN End(r, Ok(<<>>), "none", <<>>)
                ELSE Continue(r, [req[r] EXCEPT !.step = 2, !.pending = k])
       \/ /\ req[r].step = 2
          /\ \E hasId \in BOOLEAN :
                IF ~hasId
                THEN Fail(r, ValidationError, "normalization", req[r].acc)
                ELSE IF req[r].pending = 1
                THEN End(r, Ok(Append(req[r].acc, Len(req[r].acc) + 1)), "none", <<>>)
                ELSE Continue(r, [req[r] EXCEPT !.acc = Append(@, Len(@) + 1),
                                                !.pending = @ - 1])
       \/ Fail(r, ProviderError, "provider", req[r].acc)

\* lines 214-239 and 252-277: one files().list call, each file normalized;
\* DriveFile needs an id (0 stands for a file without one)
DriveListReturns(r) ==
    /\ req[r].pc = "provider"
    /\ req[r].endpoint \in {"drive_recent", "drive_search"}
    /\ loop \in {r, NoOne}
    /\ UNCHANGED <<now, clientConfig, tokenFile, issued, produced>>
    /\ \/ \E files \in {<<>>, <<1>>, <<1, 0>>} :
             IF \E i \in 1..Len(files) : files[i] = 0
             THEN Fail(r, ValidationError, "normalization", <<>>)
             ELSE End(r, Ok(files), "none", <<>>)
       \/ Fail(r, ProviderError, "provider", <<>>)

\* lines 291-321: files().get, then the export of an editable document or
\* HTTPException(400); DriveFileContent needs an id
DriveFileReturns(r) ==
    /\ req[r].pc = "provider"
    /\ req[r].endpoint = "drive_file"
    /\ loop \in {r, NoOne}
    /\ UNCHANGED <<now, clientConfig, tokenFile, issued, produced>>
    /\ \/ /\ req[r].step = 1
          /\ \E mime \in MimeKinds, hasId \in BOOLEAN :
                IF ExportAllowed(mime)
                THEN Continue(r, [req[r] EXCEPT !.step = 2, !.mime = mime,
                                                !.hasId = hasId, !.exportCalls = 1])
                ELSE /\ Raise(r, "drive_file", mime,
                              Exc("HTTPException", 400,
                                  <<"Unsupported mimeType for content export: ", mime>>),
                              "unsupported", <<>>)
                     /\ gc' = NoCall
       \/ /\ req[r].step = 2
          /\ IF req[r].hasId
             THEN End(r, Ok(<<"text">>), "none", <<>>)
             ELSE Fail(r, ValidationError, "normalization", <<>>)
       \/ Fail(r, ProviderError, "provider", <<>>)

\* time passes
Tick ==
    /\ now < MaxTime
    /\ now' = now + 1
    /\ UNCHANGED <<clientConfig, tokenFile, issued, loop, req, gc, last, produced>>

Next ==
    \/ \E r \in Requests : Arrive(r)
    \/ \E r \in Requests : Begin(r)
    \/ \E r \in Requests : RefreshReturns(r)
    \/ \E r \in Requests : FlowReturns(r)
    \/ \E r \in Requests : CalendarReturns(r)
    \/ \E r \in Requests : GmailReturns(r)
    \/ \E r \in Requests : DriveListReturns(r)
    \/ \E r \in Requests : DriveFileReturns(r)
    \/ Tick

Spec == Init /\ [][Next]_vars

\* ------------------------------------------------------------- merge
\* calendar_next with a valid credential, waiting for the primary
\* calendar: the state the merge of lines 124-160 starts from
MergeCred ==
    [token |-> 1, refresh_token |-> TRUE, expiry |-> NoExpiry,
     scopes |-> SCOPES, granted |-> SCOPES]

InitMerge ==
    /\ now = 0
    /\ clientConfig = TRUE
    /\ tokenFile = to_json(MergeCred)
    /\ issued = 1
    /\ loop = "r1"
    /\ req = [r \in Requests |->
                IF r = "r1"
                THEN [IdleReq EXCEPT !.pc = "provider", !.endpoint = "calendar_next",
                                     !.step = 1]
                ELSE IdleReq]
    /\ gc = [NoCall EXCEPT !.caller = "r1", !.outcome = "returned", !.hadCred = TRUE,
                           !.loaded = MergeCred, !.returned = MergeCred]
    /\ last = NoResponse
    /\ produced = tokenFile

\* each calendar returns any list of at most MaxItems events
MergeReturns ==
    /\ req["r1"].pc = "provider"
    /\ \E items \in ItemLists(req["r1"].step, RawStarts, MaxItems) :
          CalendarOk("r1", items)
    /\ UNCHANGED <<now, clientConfig, tokenFile, issued, produced>>

NextMerge == MergeReturns

SpecMerge == InitMerge /\ [][NextMerge]_vars

\* ------------------------------------------------------------- properties
\* a get_credentials call has ended, having found a stored credential
Ended == gc.outcome # "none" /\ gc.hadCred

InExchange(r) == req[r].pc \in {"refresh", "flow"}

\* C1: with the client configuration present and a stored credential that
\* is valid when get_credentials checks it, the call starts no refresh and
\* no interactive flow, writes nothing to the credential store and returns
\* the credential it loaded; this holds for every such call, however many
\* calls came before it.
C1_ValidCredentialIsReturnedAsIs ==
    /\ (Ended /\ Valid(gc.loaded, gc.t0)) =>
          /\ gc.outcome = "returned"
          /\ gc.refreshCalls = 0
          /\ gc.flowCalls = 0
          /\ gc.writes = 0
          /\ gc.returned = gc.loaded
          /\ tokenFile.state = "ok"
          /\ from_authorized_user_file(tokenFile, SCOPES) = gc.loaded
    /\ \A r \in Requests :
          (InExchange(r) /\ req[r].hadCred) => ~Valid(req[r].loaded, req[r].t0)

\* a later call of a run that has already refreshed or acquired finds the
\* stored credential valid and returns it
C1_Witness ==
    /\ Ended /\ Valid(gc.loaded, gc.t0)
    /\ gc.outcome = "returned"
    /\ gc.loaded.token > 1
    /\ gc.t0 > 0

\* C2: with a stored credential whose expiry has passed and that has a
\* refresh token, one get_credentials call invokes the refresh exchange
\* exactly once and never the interactive flow; when the refresh succeeds
\* the returned credential's expiry is strictly later than the loaded one's.
C2_ExpiredWithTokenRefreshesOnce ==
    /\ (Ended /\ Expired(gc.loaded, gc.t0) /\ gc.loaded.refresh_token) =>
          /\ gc.refreshCalls = 1
          /\ gc.flowCalls = 0
          /\ (gc.outcome = "returned" => gc.returned.expiry > gc.loaded.expiry)
    /\ \A r \in Requests :
          (req[r].hadCred /\ Expired(req[r].loaded, req[r].t0)
              /\ req[r].loaded.refresh_token) => req[r].pc # "flow"

\* an expired credential was refreshed and returned
C2_Witness ==
    /\ Ended /\ Expired(gc.loaded, gc.t0) /\ gc.loaded.refresh_token
    /\ gc.outcome = "returned"
    /\ gc.refreshCalls = 1

\* C3: when the refresh of an expired stored credential is rejected, the
\* same get_credentials call goes on to the interactive flow, persists what
\* the flow yields and returns it; the rejection does not fail the call.
C3_RejectedRefreshFallsBackToFlow ==
    gc.rejected =>
        /\ gc.flowCalls = 1
        /\ gc.outcome = "returned"
        /\ tokenFile = to_json(gc.returned)

\* C4: a stored credential whose granted scopes do not cover SCOPES makes
\* get_credentials run the interactive flow, expired or not, and no
\* returned credential's granted scopes fail to cover SCOPES.
C4_UncoveredScopesReacquire ==
    /\ (Ended /\ ~(SCOPES \subseteq gc.loaded.granted)) => gc.flowCalls = 1
    /\ gc.outcome = "returned" => SCOPES \subseteq gc.returned.granted

\* ------------------------------------------------------------- C5
\* the sort key the merge rule names: a missing or empty start is ""
StartKey(e) == IF e.start = None \/ e.start = Some(<<>>) THEN <<>> ELSE e.start[1]

\* the place of an event in the concatenation: primary (1) before family
\* (2), and within a calendar the order of its list
Earlier(a, b) ==
    \/ a.summary[1] < b.summary[1]
    \/ a.summary[1] = b.summary[1] /\ a.summary[2] < b.summary[2]

\* C5: the /calendar/next response is the stable ascending sort, by the raw
\* textual start key, of the primary events followed by the family events:
\* a missing or empty start counts as "" and comes before every non-empty
\* start, equal keys keep primary-before-family and list order, and every
\* event appears exactly once.
C5_ResponseIsStableSortOfConcatenation ==
    (last.endpoint = "calendar_next" /\ last.status = 200) =>
        LET out == last.body
            cat == last.collected
        IN  /\ Len(out) = Len(cat)
            /\ \A i \in 1..Len(cat) :
                  Cardinality({j \in 1..Len(out) : out[j] = cat[i]}) = 1
            /\ \A i, j \in 1..Len(cat) : i < j => Earlier(cat[i], cat[j])
            /\ \A i, j \in 1..Len(out) : i < j =>
                  \/ StrLess(StartKey(out[i]), StartKey(out[j]))
                  \/ /\ StartKey(out[i]) = StartKey(out[j])
                     /\ Earlier(out[i], out[j])
            /\ \A i, j \in 1..Len(out) :
                  (StartKey(out[i]) = <<>> /\ StartKey(out[j]) # <<>>) => i < j

\* a response in which a family event without a start precedes a primary
\* event with one, and a primary and a family event share a start
C5_Witness ==
    /\ last.endpoint = "calendar_next" /\ last.status = 200
    /\ \E i, j \in 1..Len(last.body) :
          /\ i < j
          /\ last.body[i].summary[1] = 2 /\ last.body[i].start = None
          /\ last.body[j].summary[1] = 1 /\ StartKey(last.body[j]) # <<>>
    /\ \E i, j \in 1..Len(last.body) :
          /\ i < j
          /\ StartKey(last.body[i]) = StartKey(last.body[j])
          /\ StartKey(last.body[i]) # <<>>
          /\ last.body[i].summary[1] = 1 /\ last.body[j].summary[1] = 2

\* ------------------------------------------------------------- C6..C10
\* C6: the load-refresh-persist sequences of concurrent calls in one
\* process are atomic units: no two calls are in an exchange at once (so no
\* two refresh the same expired credential), and a call that persists a
\* credential replaces the very record it loaded, never one another call
\* wrote in between.
C6_LoadRefreshPersistIsAtomic ==
    /\ \A r1, r2 \in Requests : (r1 # r2 /\ InExchange(r1)) => ~InExchange(r2)
    /\ \A r \in Requests : InExchange(r) => (loop = r /\ req[r].seen = tokenFile)
    /\ ~gc.clobbered

\* a second request has arrived while the first is in its refresh exchange
C6_Witness ==
    \E r1, r2 \in Requests :
        /\ r1 # r2
        /\ req[r1].pc = "refresh"
        /\ req[r2].pc = "queued"

\* C7: when the provider call for either calendar fails, /calendar/next
\* responds with an error and no event list, whatever was collected from
\* the calendar that had succeeded.
C7_CalendarFailureFailsTheRequest ==
    (last.endpoint = "calendar_next" /\ last.failure = "provider") =>
        /\ last.status = 500
        /\ last.body = <<>>

\* the family calendar failed after the primary calendar had returned events
C7_Witness ==
    /\ last.endpoint = "calendar_next"
    /\ last.failure = "provider"
    /\ last.collected # <<>>

\* C8: every endpoint call ends with 200, 400 or 500; 400 only for
\* /drive/file/{file_id} on a resource that is not an editable document,
\* with the actual kind in detail and no export issued; every other failure
\* gives 500 with the failure message as detail, and 200 goes with no
\* failure.
C8_StatusContract ==
    last.status # 0 =>
        /\ last.status \in {200, 400, 500}
        /\ last.status = 200 <=> last.failure = "none"
        /\ last.status = 400 <=> last.failure = "unsupported"
        /\ last.failure = "unsupported" =>
              /\ last.endpoint = "drive_file"
              /\ last.mime # DocMime
              /\ \E i \in 1..Len(last.detail) : last.detail[i] = last.mime
              /\ last.exportCalls = 0
        /\ last.failure \in {"credentials", "provider", "normalization"} =>
              /\ last.status = 500
              /\ last.detail # <<>>
              /\ last.body = <<>>

\* /drive/file/{file_id} answered 400 for a PDF
C8_Witness ==
    /\ last.status = 400
    /\ last.endpoint = "drive_file"
    /\ last.mime = "application/pdf"

\* C9: with a stored credential that is not valid and has no refresh
\* token, get_credentials attempts no refresh, runs the interactive flow,
\* and what it returns is the flow's fresh credential, which is then the
\* stored record.
C9_NoRefreshTokenMeansFlow ==
    /\ (Ended /\ ~Valid(gc.loaded, gc.t0) /\ ~gc.loaded.refresh_token) =>
          /\ gc.refreshCalls = 0
          /\ gc.flowCalls = 1
          /\ gc.outcome = "returned" =>
                /\ gc.returned.token = issued
                /\ gc.returned.token # gc.loaded.token
                /\ gc.returned.granted = SCOPES
                /\ tokenFile = to_json(gc.returned)
    /\ \A r \in Requests : req[r].pc = "refresh" => req[r].loaded.refresh_token

\* an expired credential without a refresh token was replaced by the flow's
C9_Witness ==
    /\ Ended /\ Expired(gc.loaded, gc.t0) /\ ~gc.loaded.refresh_token
    /\ gc.outcome = "returned"
    /\ gc.flowCalls = 1

\* C10: after any series of get_credentials calls the stored record is what
\* the most recent successful refresh or flow yielded, or the initial
\* record if none succeeded: a success stores the credential it returns,
\* and a call that raises or finds a valid credential stores nothing.
C10_StoreHoldsLastProduced ==
    /\ tokenFile = produced
    /\ (gc.outcome = "returned" /\ gc.refreshCalls + gc.flowCalls = 1) =>
          (gc.writes = 1 /\ tokenFile = to_json(gc.returned))
    /\ (gc.outcome = "raised" \/ gc.refreshCalls + gc.flowCalls = 0) => gc.writes = 0

\* two successes, then a rejected refresh that left the record of the second
C10_Witness ==
    /\ gc.outcome = "raised" /\ gc.rejected
    /\ tokenFile.state = "ok"
    /\ tokenFile.cred.token = 3

====
